---- MODULE Spec2Model ----
(***************************************************************************)
(* Model of the OpenRouter chat client: the stream session kept by         *)
(* APIService (js/api-service.js), the conversation log kept by            *)
(* ChatManager (js/api-service.js, second ChatManager class), the version  *)
(* slot kept by RegenerationManager (js/regeneration-manager.js) and the   *)
(* request pipelines of OpenRouterApp (js/app.js).                         *)
(*                                                                         *)
(* One action is one task of the browser's event loop: the synchronous     *)
(* code of a handler followed by the promise continuations (microtasks)    *)
(* it makes runnable.  Aborting a controller rejects the pending fetch or  *)
(* read of the request that carries its signal, so the continuation of     *)
(* the aborted request runs at the end of the task that aborted it.        *)
(*                                                                         *)
(* A text is a sequence of tokens (the empty sequence is the empty         *)
(* string, \o is string concatenation).                                    *)
(***************************************************************************)
EXTENDS Integers, Sequences, FiniteSets, TLC

\* Bounds of the model: requests started, reads delivered to one stream.
MaxRuns == 2
MaxReads == 1
\* Requests started in the specification of streaming text requests only.
MaxStreams == 3
MaxLegacy == 3
\* Frames of the stream text given to one pump taken alone.
MaxFrames == 3

VARIABLES
  currentController,     \* APIService.currentController: 0 is null, else the id of the run that created it
  streamingActive,       \* APIService.streamingActive
  timers,                \* pending setTimeout callbacks of beginStream (never cleared)
  messageHistory,        \* ChatManager.messageHistory
  isStreaming,           \* ChatManager.isStreaming
  regenerationHistory,   \* RegenerationManager.regenerationHistory
  currentResponseIndex,  \* RegenerationManager.currentResponseIndex
  lastUserMessage,       \* RegenerationManager.lastUserMessage: <<>> is null, else <<message>>
  runs,                  \* one record per invocation of runTextChat / runImageChat
  uncaught,              \* errors thrown out of a timer callback (reported to window.onerror)
  sse                    \* one readSSE pump taken alone: its input, buffer and output

vars == <<currentController, streamingActive, timers, messageHistory,
          isStreaming, regenerationHistory, currentResponseIndex,
          lastUserMessage, runs, uncaught, sse>>

MaxRunIds ==
  LET m == IF MaxRuns > MaxStreams THEN MaxRuns ELSE MaxStreams
  IN IF m > MaxLegacy THEN m ELSE MaxLegacy
RunIds == 1..MaxRunIds

\* The program state as one record, so that handlers compose as functions.
State ==
  [currentController |-> currentController, streamingActive |-> streamingActive,
   timers |-> timers, messageHistory |-> messageHistory,
   isStreaming |-> isStreaming, regenerationHistory |-> regenerationHistory,
   currentResponseIndex |-> currentResponseIndex,
   lastUserMessage |-> lastUserMessage, runs |-> runs, uncaught |-> uncaught,
   signalled |-> 0]

Commit(S) ==
  /\ currentController' = S.currentController
  /\ streamingActive' = S.streamingActive
  /\ timers' = S.timers
  /\ messageHistory' = S.messageHistory
  /\ isStreaming' = S.isStreaming
  /\ regenerationHistory' = S.regenerationHistory
  /\ currentResponseIndex' = S.currentResponseIndex
  /\ lastUserMessage' = S.lastUserMessage
  /\ runs' = S.runs
  /\ uncaught' = S.uncaught
  /\ sse' = sse

(***************************************************************************)
(* Wire payloads                                                           *)
(***************************************************************************)
StrContent(t) == [kind |-> "string", text |-> t, parts |-> <<>>]
PartsContent(p) == [kind |-> "parts", text |-> <<>>, parts |-> p]
NoContent == [kind |-> "absent", text |-> <<>>, parts |-> <<>>]
TextPart(t) == [type |-> "output_text", text |-> t, url |-> ""]
ImagePart(u) == [type |-> "output_image", text |-> <<>>, url |-> u]
ImageEntry(u) == [type |-> "image_url", url |-> u]
\* a choice's delta (stream payload) or message (document), with its finish_reason
Choice(c, imgs) == [content |-> c, images |-> imgs, finish_reason |-> "null"]
\* a choice that carries nothing but finish_reason: "content_filter"
FilteredChoice == [Choice(NoContent, <<>>) EXCEPT !.finish_reason = "content_filter"]
Payload(cs) == [choices |-> cs]

\* a data line of an event stream: a JSON payload, the [DONE] sentinel, or malformed JSON
JsonLine(p) == [kind |-> "json", payload |-> p]
DoneLine == [kind |-> "done", payload |-> Payload(<<>>)]
BadLine == [kind |-> "bad", payload |-> Payload(<<>>)]

EmptyResponseText == <<"[Empty response]">>
ContentFilterText == <<"[Blocked by content filter]">>
NoImagesText == <<"No images found in response.">>
GeneratedText(n) == <<"Generated ", ToString(n), " image(s):">>
ErrorText(cause) == <<"Error: ", cause>>

(***************************************************************************)
(* RegenerationManager                                                     *)
(***************************************************************************)
storeLastUserMessage(S, userMessage) ==
  [S EXCEPT !.regenerationHistory = <<>>,
            !.currentResponseIndex = -1,
            !.lastUserMessage = <<[content |-> userMessage.content,
                                   images |-> userMessage.images]>>]

\* a push that overwrites the version under the cursor instead of appending
addResponseToHistoryInPlace(S, content, images) ==
  IF S.regenerationHistory = <<>>
  THEN [S EXCEPT !.regenerationHistory = <<[content |-> content, images |-> images]>>,
                 !.currentResponseIndex = 0]
  ELSE [S EXCEPT !.regenerationHistory[S.currentResponseIndex + 1] =
                    [content |-> content, images |-> images]]

addResponseToHistory(S, content, images) ==
  [S EXCEPT !.regenerationHistory = Append(@, [content |-> content, images |-> images]),
            !.currentResponseIndex = Len(S.regenerationHistory)]

clearRegenerationHistory(S) ==
  [S EXCEPT !.regenerationHistory = <<>>,
            !.currentResponseIndex = -1,
            !.lastUserMessage = <<>>]

\* index of the last assistant turn of a log, 0 if there is none
LastAssistantIndex(h) ==
  LET idx == {i \in 1..Len(h) : h[i].role = "assistant"}
  IN IF idx = {} THEN 0 ELSE CHOOSE i \in idx : \A j \in idx : j <= i

updateChatHistoryWithCurrentResponse(S) ==
  IF S.currentResponseIndex >= 0 /\ S.currentResponseIndex < Len(S.regenerationHistory)
  THEN LET response == S.regenerationHistory[S.currentResponseIndex + 1]
           i == LastAssistantIndex(S.messageHistory)
       IN IF i = 0 THEN S
          ELSE [S EXCEPT !.messageHistory[i].content = response.content,
                         !.messageHistory[i].images = response.images]
  ELSE S

displayCurrentResponse(S) ==
  IF S.currentResponseIndex >= 0 /\ S.currentResponseIndex < Len(S.regenerationHistory)
  THEN updateChatHistoryWithCurrentResponse(S)
  ELSE S

\* a showPreviousResponse that also steps down from index 0
showPreviousResponseFromZero(S) ==
  IF S.currentResponseIndex >= 0
  THEN displayCurrentResponse([S EXCEPT !.currentResponseIndex = @ - 1])
  ELSE S

showPreviousResponse(S) ==
  IF S.currentResponseIndex > 0
  THEN displayCurrentResponse([S EXCEPT !.currentResponseIndex = @ - 1])
  ELSE S

showNextResponse(S) ==
  IF S.currentResponseIndex < Len(S.regenerationHistory) - 1
  THEN displayCurrentResponse([S EXCEPT !.currentResponseIndex = @ + 1])
  ELSE S

(***************************************************************************)
(* ChatManager                                                             *)
(***************************************************************************)
addMessageToChat(S, role, content, images) ==
  [S EXCEPT !.messageHistory =
      Append(@, [role |-> role, content |-> content, images |-> images])]

clearChat(S) == clearRegenerationHistory([S EXCEPT !.messageHistory = <<>>])

setStreamingState(S, streaming) == [S EXCEPT !.isStreaming = streaming]

(***************************************************************************)
(* APIService: the stream session                                          *)
(***************************************************************************)
\* signalled is the controller on which abort() was called in the running task
abortActive(S) ==
  [S EXCEPT !.signalled = IF S.currentController # 0 THEN S.currentController ELSE @,
            !.currentController = 0,
            !.streamingActive = FALSE]

beginStream(S, r) ==
  [abortActive(S) EXCEPT !.currentController = r,
                         !.streamingActive = TRUE,
                         !.timers = @ \cup {r}]

\* if (reason && throwError) throw new Error(`Stream closed: ${reason}`)
abortActiveThrows(reason, throwError) == reason # "" /\ throwError

cleanupStreamState(S) ==
  [S EXCEPT !.streamingActive = FALSE, !.currentController = 0]

(***************************************************************************)
(* APIService: extraction of text and images from a message                *)
(***************************************************************************)
RECURSIVE PartsText(_)
PartsText(parts) ==
  IF parts = <<>> THEN <<>>
  ELSE (IF Head(parts).type = "output_text" /\ Head(parts).text # <<>>
        THEN Head(parts).text ELSE <<>>) \o PartsText(Tail(parts))

RECURSIVE PartsImages(_)
PartsImages(parts) ==
  IF parts = <<>> THEN <<>>
  ELSE (IF Head(parts).type = "output_image" /\ Head(parts).url # ""
        THEN <<Head(parts).url>> ELSE <<>>) \o PartsImages(Tail(parts))

RECURSIVE EntriesImages(_)
EntriesImages(entries) ==
  IF entries = <<>> THEN <<>>
  ELSE (IF Head(entries).type = "image_url" /\ Head(entries).url # ""
        THEN <<Head(entries).url>> ELSE <<>>) \o EntriesImages(Tail(entries))

\* message is a sequence of at most one choice message: <<>> is undefined
extractTextFromMessage(message) ==
  IF message = <<>> THEN <<>>
  ELSE IF message[1].content.kind = "string" THEN message[1].content.text
  ELSE IF message[1].content.kind = "parts" THEN PartsText(message[1].content.parts)
  ELSE <<>>

extractImagesFromMessage(message) ==
  IF message = <<>> THEN <<>>
  ELSE PartsImages(message[1].content.parts) \o EntriesImages(message[1].images)

\* json.choices?.[0]?.message
FirstMessage(json) == IF json.choices = <<>> THEN <<>> ELSE <<json.choices[1]>>

RECURSIVE AllChoicesImages(_)
AllChoicesImages(choices) ==
  IF choices = <<>> THEN <<>>
  ELSE extractImagesFromMessage(<<Head(choices)>>) \o AllChoicesImages(Tail(choices))

(***************************************************************************)
(* OpenRouterApp: chunk and completion handlers                            *)
(***************************************************************************)
IdleRun ==
  [pc |-> "idle", kind |-> "send", mode |-> "text", stream |-> FALSE, reads |-> 0,
   assistantContent |-> <<>>, assistantImages |-> <<>>, assistantMessageDiv |-> FALSE,
   aborted |-> FALSE, nDone |-> 0, nLate |-> 0, nPush |-> 0, startLen |-> 0]

\* assistantMessageDiv = ChatManager.addMessageToChat('assistant', '') unless already set
EnsureDiv(S, r) ==
  IF S.runs[r].assistantMessageDiv THEN S
  ELSE [addMessageToChat(S, "assistant", <<>>, <<>>)
          EXCEPT !.runs[r].assistantMessageDiv = TRUE]

\* a version pushed on behalf of run r
PushVersion(S, r, content, images) ==
  [addResponseToHistory(S, content, images) EXCEPT
     !.runs[r].nPush = @ + 1]

\* for (const part of delta.content) of handleStreamingResponse
RECURSIVE TextParts(_, _, _)
TextParts(S, r, parts) ==
  IF parts = <<>> THEN S
  ELSE LET part == Head(parts)
           S1 == IF part.type = "output_text" /\ part.text # <<>>
                 THEN EnsureDiv([S EXCEPT !.runs[r].assistantContent = @ \o part.text], r)
                 ELSE S
           S2 == IF part.type = "output_image" /\ part.url # ""
                 THEN [S1 EXCEPT !.runs[r].assistantImages = Append(@, part.url)]
                 ELSE S1
       IN TextParts(S2, r, Tail(parts))

\* chunk handler of handleStreamingResponse, streamed payload
TextChunk(S, r, chunk) ==
  IF chunk.choices = <<>> THEN S
  ELSE LET delta == chunk.choices[1]
           S1 == IF delta.content.kind = "string"
                 THEN EnsureDiv([S EXCEPT !.runs[r].assistantContent = @ \o delta.content.text], r)
                 ELSE S
       IN IF delta.content.kind = "parts" THEN TextParts(S1, r, delta.content.parts) ELSE S1

\* chunk handler of handleStreamingResponse, fallback document
TextFallback(S, r, json) ==
  LET content == extractTextFromMessage(FirstMessage(json))
      images == extractImagesFromMessage(FirstMessage(json))
  IN addMessageToChat(S, "assistant",
                      IF content = <<>> THEN EmptyResponseText ELSE content, images)

\* completion handler of handleStreamingResponse
TextDone(S, r) ==
  LET run == S.runs[r]
      last == Len(S.messageHistory)
      S1 == IF last >= 1
            THEN [S EXCEPT !.messageHistory[last].content = run.assistantContent,
                           !.messageHistory[last].images = run.assistantImages]
            ELSE S
  IN PushVersion(S1, r, run.assistantContent, run.assistantImages)

\* for (const img of delta.images) of handleStreamingImageResponse
RECURSIVE ImageEntries(_, _, _)
ImageEntries(S, r, entries) ==
  IF entries = <<>> THEN S
  ELSE LET img == Head(entries)
           S1 == IF img.type = "image_url" /\ img.url # ""
                 THEN EnsureDiv([S EXCEPT !.runs[r].assistantImages = Append(@, img.url)], r)
                 ELSE S
       IN ImageEntries(S1, r, Tail(entries))

\* for (const choice of chunk.choices) of handleStreamingImageResponse
RECURSIVE ImageChoices(_, _, _)
ImageChoices(S, r, choices) ==
  IF choices = <<>> THEN S
  ELSE LET delta == Head(choices)
           S1 == ImageEntries(S, r, delta.images)
           S2 == IF delta.content.kind = "parts"
                 THEN TextParts(S1, r, delta.content.parts) ELSE S1
       IN ImageChoices(S2, r, Tail(choices))

ImageChunk(S, r, chunk) == ImageChoices(S, r, chunk.choices)

ImageFallback(S, r, json) ==
  LET totalImages == AllChoicesImages(json.choices)
      content == IF Len(totalImages) > 0 THEN GeneratedText(Len(totalImages))
                 ELSE NoImagesText
  IN addMessageToChat(S, "assistant", content, totalImages)

\* completion handler of handleStreamingImageResponse
ImageDone(S, r) ==
  LET run == S.runs[r]
      content == IF run.assistantContent = <<>>
                 THEN GeneratedText(Len(run.assistantImages))
                 ELSE run.assistantContent
  IN PushVersion(S, r, content, run.assistantImages)

handleNonStreamingResponse(S, r, json) ==
  LET content == extractTextFromMessage(FirstMessage(json))
      images == extractImagesFromMessage(FirstMessage(json))
      shown == IF content = <<>> THEN EmptyResponseText ELSE content
  IN PushVersion(addMessageToChat(S, "assistant", shown, images), r, shown, images)

handleNonStreamingImageResponse(S, r, json) ==
  LET totalImages == AllChoicesImages(json.choices)
      content == IF Len(totalImages) > 0 THEN GeneratedText(Len(totalImages))
                 ELSE NoImagesText
  IN PushVersion(addMessageToChat(S, "assistant", content, totalImages), r, content, totalImages)

handleError(S, r, cause) ==
  cleanupStreamState(
    PushVersion(addMessageToChat(S, "assistant", ErrorText(cause), <<>>),
                r, ErrorText(cause), <<>>))

(***************************************************************************)
(* APIService.readSSE and the life of one request                          *)
(***************************************************************************)
InFlight == {"fetch", "read", "json"}

\* onChunk / onDone as passed to readSSE by the run's mode
OnChunk(S, r, chunk) ==
  LET S1 == [S EXCEPT !.runs[r].nLate = @ + (IF S.runs[r].nDone > 0 THEN 1 ELSE 0)]
  IN IF S.runs[r].mode = "text" THEN TextChunk(S1, r, chunk) ELSE ImageChunk(S1, r, chunk)

OnFallback(S, r, json) ==
  LET S1 == [S EXCEPT !.runs[r].nLate = @ + (IF S.runs[r].nDone > 0 THEN 1 ELSE 0)]
  IN IF S.runs[r].mode = "text" THEN TextFallback(S1, r, json) ELSE ImageFallback(S1, r, json)

OnDone(S, r) ==
  LET S1 == [S EXCEPT !.runs[r].nDone = @ + 1]
  IN IF S.runs[r].mode = "text" THEN TextDone(S1, r) ELSE ImageDone(S1, r)

\* a frame loop that keeps dispatching the data lines that follow [DONE]
RECURSIVE PumpLinesPastDone(_, _, _)
PumpLinesPastDone(S, r, lines) ==
  IF lines = <<>> THEN S
  ELSE IF Head(lines).kind = "done" THEN PumpLinesPastDone(OnDone(S, r), r, Tail(lines))
  ELSE IF Head(lines).kind = "json"
       THEN PumpLinesPastDone(OnChunk(S, r, Head(lines).payload), r, Tail(lines))
  ELSE PumpLinesPastDone(S, r, Tail(lines))

\* the frame loop of pump over the data lines completed by one read
RECURSIVE PumpLines(_, _, _)
PumpLines(S, r, lines) ==
  IF lines = <<>> THEN S
  ELSE IF Head(lines).kind = "done" THEN OnDone(S, r)
  ELSE IF Head(lines).kind = "json"
       THEN PumpLines(OnChunk(S, r, Head(lines).payload), r, Tail(lines))
  ELSE PumpLines(S, r, Tail(lines))

\* finally of runTextChat / runImageChat; the run's closure is dropped
Finally(S, r) ==
  [setStreamingState(S, FALSE) EXCEPT
     !.runs[r] = [IdleRun EXCEPT !.pc = "done", !.kind = S.runs[r].kind,
                                 !.aborted = S.runs[r].aborted,
                                 !.nDone = S.runs[r].nDone, !.nLate = S.runs[r].nLate,
                                 !.nPush = S.runs[r].nPush]]

\* the run's promise rejects: finally, then catch (error) { this.handleError(error) }
Fail(S, r, cause) == handleError(Finally(S, r), r, cause)

\* what the rejection of its pending fetch / read does to an aborted request:
\* the fetch (or response.text()) rejects into handleError, the read rejects
\* into .catch(err => onDone(err))
Settle(S, r) ==
  LET S1 == [S EXCEPT !.runs[r].aborted = TRUE]
  IN IF S.runs[r].pc = "read" THEN Finally(OnDone(S1, r), r)
     ELSE Fail(S1, r, "aborted")

\* the continuations made runnable by the abort() of the task that produced S
Microtasks(S) ==
  IF S.signalled # 0 /\ S.runs[S.signalled].pc \in {"fetch", "read"}
  THEN Settle(S, S.signalled)
  ELSE S

Started == {r \in RunIds : runs[r].pc # "idle"}
NewRun == Cardinality(Started) + 1

\* runTextChat / runImageChat up to the first await
StartRun(S, r, kind, mode, stream, n) ==
  LET S1 == [setStreamingState(S, TRUE) EXCEPT
               !.runs[r] = [IdleRun EXCEPT !.kind = kind, !.mode = mode, !.stream = stream,
                                           !.pc = IF stream THEN "fetch" ELSE "json",
                                           !.startLen = n]]
  IN IF stream THEN beginStream(S1, r) ELSE S1

(***************************************************************************)
(* Inputs                                                                  *)
(***************************************************************************)
UserMessages ==
  { [content |-> <<"q1">>, images |-> <<"upload">>] }

Modes == {"text", "image"}

PayloadA == Payload(<<Choice(StrContent(<<"a">>), <<>>)>>)
\* two choices: an images list, then a text part and an image part
PayloadTwo ==
  Payload(<<Choice(NoContent, <<ImageEntry("u2")>>),
            Choice(PartsContent(<<TextPart(<<"lo">>), ImagePart("u1")>>), <<>>)>>)
PayloadFiltered == Payload(<<FilteredChoice>>)

Chunks ==
  { <<BadLine, JsonLine(PayloadA)>>,
    <<JsonLine(PayloadTwo)>>,
    <<JsonLine(PayloadFiltered), DoneLine, JsonLine(PayloadA)>> }

DocHi == Payload(<<Choice(StrContent(<<"Hi">>), <<>>)>>)
DocImage == Payload(<<Choice(NoContent, <<ImageEntry("u3")>>)>>)
Documents == {DocHi, DocImage}
\* the document that answers a request of a mode
DocumentsFor(mode) == IF mode = "text" THEN {DocHi} ELSE {DocImage}


\* no pump is taken alone
NoPump ==
  [frames |-> <<>>, tail |-> <<>>, failing |-> FALSE, throwing |-> {}, text |-> <<>>,
   rest |-> <<>>, buffer |-> <<>>, handled |-> <<>>,
   out |-> <<>>, ended |-> <<>>, done |-> FALSE,
   cutInDelimiter |-> FALSE, cutInLine |-> FALSE]

(***************************************************************************)
(* Actions                                                                 *)
(***************************************************************************)
InitApp ==
  /\ currentController = 0
  /\ streamingActive = FALSE
  /\ timers = {}
  /\ messageHistory = <<>>
  /\ isStreaming = FALSE
  /\ regenerationHistory = <<>>
  /\ currentResponseIndex = -1
  /\ lastUserMessage = <<>>
  /\ runs = [r \in RunIds |-> IdleRun]
  /\ uncaught = 0

Init == InitApp /\ sse = NoPump

\* OpenRouterApp.handleSendMessage; the send button is disabled while isStreaming
HandleSendMessage(userMessage, mode, stream) ==
  /\ ~isStreaming
  /\ LET S1 == storeLastUserMessage(State, userMessage)
         S2 == addMessageToChat(S1, "user", userMessage.content, userMessage.images)
         S3 == StartRun(S2, NewRun, "send", mode, stream, 0)
     IN Commit(Microtasks(S3))

\* a regenerate handler without the guard on the stored user message
HandleRegenerateResponseUnguarded(mode, stream) ==
  LET n == Len(messageHistory)
      answered == n > 0 /\ messageHistory[n].role = "assistant"
      S1 == IF answered
            THEN [State EXCEPT !.messageHistory = SubSeq(@, 1, n - 1)]
            ELSE State
      S2 == StartRun(S1, NewRun, "regen", mode, stream, IF answered THEN n ELSE 0)
  IN Commit(Microtasks(S2))

\* OpenRouterApp.handleRegenerateResponse
HandleRegenerateResponse(mode, stream) ==
     IF lastUserMessage = <<>> THEN UNCHANGED vars
     ELSE LET n == Len(messageHistory)
              answered == n > 0 /\ messageHistory[n].role = "assistant"
              S1 == IF answered
                    THEN [State EXCEPT !.messageHistory = SubSeq(@, 1, n - 1)]
                    ELSE State
              S2 == StartRun(S1, NewRun, "regen", mode, stream, IF answered THEN n ELSE 0)
          IN Commit(Microtasks(S2))

\* OpenRouterApp.handleStopGeneration
HandleStopGeneration ==
  Commit(Microtasks(setStreamingState(abortActive(State), FALSE)))

\* the setTimeout callback of beginStream: this.abortActive('Timed out', true)
TimerFires(t) ==
  /\ t \in timers
  /\ LET S1 == abortActive([State EXCEPT !.timers = @ \ {t}])
     IN Commit(Microtasks([S1 EXCEPT !.uncaught =
                             IF abortActiveThrows("Timed out", TRUE) THEN @ + 1 ELSE @]))

\* ChatManager.clearChat with OpenRouterApp.handleClearChat; the turn a pending
\* regeneration was to replace is gone with the log (startLen is history only)
HandleClearChat ==
  Commit([clearChat(State) EXCEPT
            !.runs = [r \in RunIds |-> [State.runs[r] EXCEPT !.startLen = 0]]])

HandlePreviousResponse == Commit(showPreviousResponse(State))

HandleNextResponse == Commit(showNextResponse(State))

\* the fetch resolves with an OK event stream: readSSE starts to pump
FetchResponds(r) ==
  /\ runs[r].pc = "fetch"
  /\ runs' = [runs EXCEPT ![r].pc = "read"]
  /\ UNCHANGED <<currentController, streamingActive, timers, messageHistory,
                 isStreaming, regenerationHistory, currentResponseIndex, lastUserMessage,
                 uncaught, sse>>

\* the fetch resolves with an OK response that is no event stream, and its body
\* arrives: parseJsonOrThrow, then onChunk({json, fallback: true}) and onDone()
FetchFallback(r, wellFormed, json) ==
  /\ runs[r].pc = "fetch"
  /\ Commit(IF wellFormed THEN Finally(OnDone(OnFallback(State, r, json), r), r)
            ELSE Fail(State, r, "Failed to parse JSON"))

\* the fetch resolves with a non-OK status and its body arrives: readSSE throws
FetchHttpError(r) ==
  /\ runs[r].pc = "fetch"
  /\ Commit(Fail(State, r, "HTTP"))

\* the fetch (or reading the body of a non-stream response) rejects
FetchFails(r) ==
  /\ runs[r].pc = "fetch"
  /\ Commit(Fail(State, r, "Failed to fetch"))

\* reader.read() resolves with bytes that complete the data lines `lines`
ReadChunk(r, lines) ==
  /\ runs[r].pc = "read"
  /\ runs[r].reads < MaxReads
  /\ LET S1 == PumpLines([State EXCEPT !.runs[r].reads = @ + 1], r, lines)
     IN Commit(IF S1.runs[r].nDone > runs[r].nDone THEN Finally(S1, r) ELSE S1)

\* reader.read() resolves with done
ReadEnd(r) ==
  /\ runs[r].pc = "read"
  /\ Commit(Finally(OnDone(State, r), r))

\* reader.read() rejects: .catch(err => onDone(err))
ReadFails(r) ==
  /\ runs[r].pc = "read"
  /\ Commit(Finally(OnDone(State, r), r))

\* sendChatCompletion(..., false) resolves with the parsed document
JsonArrives(r, json) ==
  /\ runs[r].pc = "json"
  /\ Commit(Finally(IF runs[r].mode = "text"
                    THEN handleNonStreamingResponse(State, r, json)
                    ELSE handleNonStreamingImageResponse(State, r, json), r))

\* sendChatCompletion(..., false) rejects: transport failure or parseJsonOrThrow
JsonFails(r) ==
  /\ runs[r].pc = "json"
  /\ Commit(Fail(State, r, "Failed to parse JSON"))

Next ==
  \/ \E m \in UserMessages, mode \in Modes, stream \in BOOLEAN :
        NewRun <= MaxRuns /\ HandleSendMessage(m, mode, stream)
  \/ \E mode \in Modes, stream \in BOOLEAN :
        NewRun <= MaxRuns /\ HandleRegenerateResponse(mode, stream)
  \/ HandleStopGeneration
  \/ HandleClearChat
  \/ HandlePreviousResponse
  \/ HandleNextResponse
  \/ \E r \in RunIds : FetchResponds(r)
  \/ \E r \in RunIds, wellFormed \in BOOLEAN, json \in Documents :
        json \in DocumentsFor(runs[r].mode) /\ FetchFallback(r, wellFormed, json)
  \/ \E r \in RunIds : FetchHttpError(r)
  \/ \E r \in RunIds : FetchFails(r)
  \/ \E r \in RunIds, lines \in Chunks : ReadChunk(r, lines)
  \/ \E r \in RunIds : ReadEnd(r)
  \/ \E r \in RunIds : ReadFails(r)
  \/ \E r \in RunIds, json \in Documents :
        json \in DocumentsFor(runs[r].mode) /\ JsonArrives(r, json)
  \/ \E r \in RunIds : JsonFails(r)

\* Every handler of the page and every outcome of a request; no deadline of
\* beginStream expires (the deadlines are in SpecStreams).
Spec == Init /\ [][Next]_vars

\* Streaming text requests only, one more of them than Spec allows, with the
\* deadline timers of beginStream.
NextStreams ==
  \/ \E m \in UserMessages :
        NewRun <= MaxStreams /\ HandleSendMessage(m, "text", TRUE)
  \/ NewRun <= MaxStreams /\ HandleRegenerateResponse("text", TRUE)
  \/ HandleStopGeneration
  \/ \E t \in RunIds : TimerFires(t)
  \/ \E r \in RunIds : FetchResponds(r)
  \/ \E r \in RunIds : ReadChunk(r, <<JsonLine(PayloadA)>>)
  \/ \E r \in RunIds : ReadEnd(r)

SpecStreams == Init /\ [][NextStreams]_vars

(***************************************************************************)
(* The single-file script (part_000): sendMessage / runChat and            *)
(* regenerateLastResponse / runChatRegeneration, text mode                 *)
(***************************************************************************)
StreamClosedText(reason) == <<"[Stream closed: ", reason, "]">>

Legacy_addResponseToHistory(S, r, content, images) ==
  [S EXCEPT !.regenerationHistory = Append(@, [content |-> content, images |-> images]),
            !.currentResponseIndex = Len(S.regenerationHistory),
            !.runs[r].nPush = @ + 1]

\* sendBtn.disabled is kept in isStreaming, timeoutHandle in timers
Legacy_cleanupStreamState(S) ==
  [S EXCEPT !.streamingActive = FALSE, !.timers = {}, !.isStreaming = FALSE]

Legacy_abortActive(S, reason) ==
  LET S1 == [S EXCEPT !.signalled = IF S.currentController # 0
                                    THEN S.currentController ELSE @,
                      !.currentController = 0]
      S2 == IF reason # ""
            THEN addMessageToChat(S1, "assistant", StreamClosedText(reason), <<>>)
            ELSE S1
  IN Legacy_cleanupStreamState(S2)

Legacy_beginStream(S, r) ==
  [Legacy_abortActive(S, "") EXCEPT !.currentController = r, !.streamingActive = TRUE,
                                    !.timers = {r}, !.isStreaming = TRUE]

Legacy_reportErr(S, cause) ==
  Legacy_cleanupStreamState(addMessageToChat(S, "assistant", ErrorText(cause), <<>>))

pickText(message) ==
  IF message = <<>> THEN <<>>
  ELSE IF message[1].content.kind = "string" THEN message[1].content.text
  ELSE IF message[1].content.kind = "parts" THEN PartsText(message[1].content.parts)
  ELSE <<>>

\* extractImagesFromMessage of the script: the entries of message.images are
\* taken whatever their type
RECURSIVE Legacy_EntriesImages(_)
Legacy_EntriesImages(entries) ==
  IF entries = <<>> THEN <<>>
  ELSE (IF Head(entries).url # "" THEN <<Head(entries).url>> ELSE <<>>)
       \o Legacy_EntriesImages(Tail(entries))

Legacy_extractImagesFromMessage(message) ==
  IF message = <<>> THEN <<>>
  ELSE (IF message[1].content.kind = "parts"
        THEN PartsImages(message[1].content.parts) ELSE <<>>)
       \o Legacy_EntriesImages(message[1].images)

\* messageHistory[lastMessageIndex] takes the response when it is an assistant turn
Legacy_UpdateLastAssistant(S, content, images) ==
  LET last == Len(S.messageHistory)
  IN IF last >= 1 /\ S.messageHistory[last].role = "assistant"
     THEN [S EXCEPT !.messageHistory[last].content = content,
                    !.messageHistory[last].images = images]
     ELSE S

\* if (fin === "content_filter") { if (!assistantMessageDiv) assistantMessageDiv =
\* addMessageToChat('assistant', '[Blocked by content filter]') } on choices[0]
Legacy_Filter(S, r, chunk) ==
  IF chunk.choices # <<>> /\ chunk.choices[1].finish_reason = "content_filter"
     /\ ~S.runs[r].assistantMessageDiv
  THEN [addMessageToChat(S, "assistant", ContentFilterText, <<>>)
          EXCEPT !.runs[r].assistantMessageDiv = TRUE]
  ELSE S

\* chunk handler of runChat: the filter check, then the code of
\* handleStreamingResponse's
Legacy_ChatChunk(S, r, chunk) == TextChunk(Legacy_Filter(S, r, chunk), r, chunk)

Legacy_ChatFallback(S, r, json) ==
  LET content == pickText(FirstMessage(json))
  IN addMessageToChat(S, "assistant",
                      IF content = <<>> THEN EmptyResponseText ELSE content, <<>>)

\* completion handler of runChat
Legacy_ChatDone(S, r) ==
  LET run == S.runs[r]
      content == IF run.assistantContent = <<>>
                 THEN GeneratedText(Len(run.assistantImages)) ELSE run.assistantContent
      last == Len(S.messageHistory)
      S1 == IF last >= 1 /\ S.messageHistory[last].role = "assistant"
               /\ S.messageHistory[last].content = <<>>
            THEN [S EXCEPT !.messageHistory[last].content = content,
                           !.messageHistory[last].images = run.assistantImages]
            ELSE [S EXCEPT !.messageHistory =
                    Append(@, [role |-> "assistant", content |-> content,
                               images |-> run.assistantImages])]
  IN Legacy_cleanupStreamState(
       IF run.assistantMessageDiv /\ (run.assistantContent # <<>> \/ run.assistantImages # <<>>)
       THEN Legacy_addResponseToHistory(S1, r, content, run.assistantImages)
       ELSE S)

\* for (var i ...) over delta.content in runChatRegeneration: the TypeError of
\* assistantMessageDiv.querySelector, thrown when the page shows no assistant
\* message, ends the handling of the chunk (readSSE swallows it)
RECURSIVE Legacy_RegenParts(_, _, _)
Legacy_RegenParts(S, r, parts) ==
  IF parts = <<>> THEN S
  ELSE LET part == Head(parts)
           isText == part.type = "output_text" /\ part.text # <<>>
           S1 == IF isText THEN [S EXCEPT !.runs[r].assistantContent = @ \o part.text] ELSE S
           S2 == IF part.type = "output_image" /\ part.url # ""
                 THEN [S1 EXCEPT !.runs[r].assistantImages = Append(@, part.url)]
                 ELSE S1
       IN IF isText /\ LastAssistantIndex(S.messageHistory) = 0 THEN S1
          ELSE Legacy_RegenParts(S2, r, Tail(parts))

\* chunk handler of runChatRegeneration, streamed payload
Legacy_RegenChunk(S, r, chunk) ==
  IF chunk.choices = <<>> THEN S
  ELSE LET delta == chunk.choices[1]
           S0 == Legacy_Filter(S, r, chunk)
       IN IF delta.content.kind = "string"
          THEN [S0 EXCEPT !.runs[r].assistantContent = @ \o delta.content.text]
          ELSE IF delta.content.kind = "parts"
          THEN Legacy_RegenParts(S0, r, delta.content.parts)
          ELSE S0

\* chunk handler of runChatRegeneration, fallback branch
Legacy_RegenFallback(S, r, json) ==
  LET content == pickText(FirstMessage(json))
      images == Legacy_extractImagesFromMessage(FirstMessage(json))
      shown == IF content = <<>> THEN EmptyResponseText ELSE content
  IN Legacy_UpdateLastAssistant(Legacy_addResponseToHistory(S, r, shown, images),
                                shown, images)

\* completion handler of runChatRegeneration
Legacy_RegenDone(S, r) ==
  LET run == S.runs[r]
      content == IF run.assistantContent = <<>>
                 THEN GeneratedText(Len(run.assistantImages)) ELSE run.assistantContent
  IN Legacy_cleanupStreamState(
       Legacy_UpdateLastAssistant(
         Legacy_addResponseToHistory(S, r, content, run.assistantImages),
         content, run.assistantImages))

Legacy_OnChunk(S, r, chunk) ==
  LET S1 == [S EXCEPT !.runs[r].nLate = @ + (IF S.runs[r].nDone > 0 THEN 1 ELSE 0)]
  IN IF S.runs[r].kind = "send" THEN Legacy_ChatChunk(S1, r, chunk)
     ELSE Legacy_RegenChunk(S1, r, chunk)

Legacy_OnFallback(S, r, json) ==
  IF S.runs[r].kind = "send" THEN Legacy_ChatFallback(S, r, json)
  ELSE Legacy_RegenFallback(S, r, json)

Legacy_OnDone(S, r) ==
  LET S1 == [S EXCEPT !.runs[r].nDone = @ + 1]
  IN IF S.runs[r].kind = "send" THEN Legacy_ChatDone(S1, r) ELSE Legacy_RegenDone(S1, r)

\* the frame loop of the script's pump
RECURSIVE Legacy_PumpLines(_, _, _)
Legacy_PumpLines(S, r, lines) ==
  IF lines = <<>> THEN S
  ELSE IF Head(lines).kind = "done" THEN Legacy_OnDone(S, r)
  ELSE IF Head(lines).kind = "json"
       THEN Legacy_PumpLines(Legacy_OnChunk(S, r, Head(lines).payload), r, Tail(lines))
  ELSE Legacy_PumpLines(S, r, Tail(lines))

\* the promise of runChat / runChatRegeneration settles; its closure is dropped
Legacy_Close(S, r) ==
  [S EXCEPT !.runs[r] = [IdleRun EXCEPT !.pc = "done", !.kind = S.runs[r].kind,
                                        !.aborted = S.runs[r].aborted,
                                        !.nDone = S.runs[r].nDone, !.nLate = S.runs[r].nLate,
                                        !.nPush = S.runs[r].nPush]]

\* .catch(function(err){ cleanupStreamState(); throw err; }), then .catch(reportErr)
Legacy_Fail(S, r, cause) == Legacy_reportErr(Legacy_Close(S, r), cause)

Legacy_Settle(S, r) ==
  LET S1 == [S EXCEPT !.runs[r].aborted = TRUE]
  IN IF S.runs[r].pc = "read" THEN Legacy_Close(Legacy_OnDone(S1, r), r)
     ELSE Legacy_Fail(S1, r, "aborted")

Legacy_Microtasks(S) ==
  IF S.signalled # 0 /\ S.runs[S.signalled].pc \in {"fetch", "read"}
  THEN Legacy_Settle(S, S.signalled)
  ELSE S

\* runChat / runChatRegeneration up to the fetch
Legacy_StartRun(S, r, kind, stream) ==
  LET S1 == [S EXCEPT !.runs[r] = [IdleRun EXCEPT !.kind = kind, !.stream = stream,
                                                  !.pc = IF stream THEN "fetch" ELSE "json"]]
  IN IF stream THEN Legacy_beginStream(S1, r) ELSE S1

\* sendMessage; the send button is disabled between beginStream and cleanupStreamState
Legacy_sendMessage(userMessage, stream) ==
  /\ ~isStreaming
  /\ LET S1 == [State EXCEPT !.lastUserMessage = <<userMessage>>]
         S2 == addMessageToChat(S1, "user", userMessage.content, userMessage.images)
         S3 == [S2 EXCEPT !.regenerationHistory = <<>>, !.currentResponseIndex = -1]
     IN Commit(Legacy_Microtasks(Legacy_StartRun(S3, NewRun, "send", stream)))

Legacy_regenerateLastResponse(stream) ==
  IF lastUserMessage = <<>> THEN UNCHANGED vars
  ELSE Commit(Legacy_Microtasks(Legacy_StartRun(State, NewRun, "regen", stream)))

\* stopBtn click: abortActive("Stopped by user"); the button is shown between
\* beginStream and cleanupStreamState
Legacy_Stop ==
  /\ isStreaming
  /\ Commit(Legacy_Microtasks(Legacy_abortActive(State, "Stopped by user")))

\* the callback of timeoutHandle: abortActive("Timed out")
Legacy_TimerFires(t) ==
  /\ t \in timers
  /\ Commit(Legacy_Microtasks(
              Legacy_abortActive([State EXCEPT !.timers = @ \ {t}], "Timed out")))

Legacy_FetchFallback(r, wellFormed, json) ==
  /\ runs[r].pc = "fetch"
  /\ Commit(IF wellFormed
            THEN Legacy_Close(Legacy_OnDone(Legacy_OnFallback(State, r, json), r), r)
            ELSE Legacy_Fail(State, r, "Failed to parse JSON"))

Legacy_FetchFails(r) ==
  /\ runs[r].pc = "fetch"
  /\ Commit(Legacy_Fail(State, r, "Failed to fetch"))

Legacy_ReadChunk(r, lines) ==
  /\ runs[r].pc = "read"
  /\ runs[r].reads < MaxReads
  /\ LET S1 == Legacy_PumpLines([State EXCEPT !.runs[r].reads = @ + 1], r, lines)
     IN Commit(IF S1.runs[r].nDone > runs[r].nDone THEN Legacy_Close(S1, r) ELSE S1)

Legacy_ReadEnd(r) ==
  /\ runs[r].pc = "read"
  /\ Commit(Legacy_Close(Legacy_OnDone(State, r), r))

\* .then(parseJsonOrThrow).then(function(json){ ... }) of the non-streaming branches
Legacy_JsonArrives(r, json) ==
  /\ runs[r].pc = "json"
  /\ LET content == pickText(FirstMessage(json))
         images == Legacy_extractImagesFromMessage(FirstMessage(json))
         shown == IF content = <<>> THEN EmptyResponseText ELSE content
         S1 == IF runs[r].kind = "send"
               THEN Legacy_addResponseToHistory(
                      addMessageToChat(State, "assistant", shown, images), r, shown, images)
               ELSE Legacy_UpdateLastAssistant(
                      Legacy_addResponseToHistory(State, r, shown, images), shown, images)
     IN Commit(Legacy_Close(Legacy_cleanupStreamState(S1), r))

Legacy_JsonFails(r) ==
  /\ runs[r].pc = "json"
  /\ Commit(Legacy_Fail(State, r, "Failed to parse JSON"))

NextLegacy ==
  \/ \E m \in UserMessages, stream \in BOOLEAN :
        NewRun <= MaxLegacy /\ Legacy_sendMessage(m, stream)
  \/ \E stream \in BOOLEAN :
        NewRun <= MaxLegacy /\ Legacy_regenerateLastResponse(stream)
  \/ Legacy_Stop
  \/ \E t \in RunIds : Legacy_TimerFires(t)
  \/ \E r \in RunIds : FetchResponds(r)
  \/ \E r \in RunIds, wellFormed \in BOOLEAN, json \in Documents :
        json \in DocumentsFor(runs[r].mode) /\ Legacy_FetchFallback(r, wellFormed, json)
  \/ \E r \in RunIds : Legacy_FetchFails(r)
  \/ \E r \in RunIds, lines \in Chunks : Legacy_ReadChunk(r, lines)
  \/ \E r \in RunIds : Legacy_ReadEnd(r)
  \/ \E r \in RunIds, json \in Documents :
        json \in DocumentsFor(runs[r].mode) /\ Legacy_JsonArrives(r, json)
  \/ \E r \in RunIds : Legacy_JsonFails(r)

\* The single-file script in text mode.
SpecLegacy == Init /\ [][NextLegacy]_vars

(***************************************************************************)
(* Stream sessions and readSSE                                             *)
(***************************************************************************)
\* the promise of run r settles in this step (finally of runTextChat / runImageChat)
Ends(r) == runs[r].pc \in InFlight /\ runs'[r].pc = "done"

\* the stream sessions whose request is in flight
StreamsInFlight == {r \in RunIds : runs[r].stream /\ runs[r].pc \in InFlight}

\* C1: every stream session that ends otherwise than by a fatal error (it was
\* reading its stream, or was aborted, or has finalized) ends with exactly one
\* of two outcomes: its completion handler has committed the response
\* (finalize), or its controller was aborted; never both and never neither.
C1_ExactlyOneOutcome ==
  [][\A r \in RunIds :
       (/\ runs[r].stream /\ Ends(r)
        /\ (runs[r].pc = "read" \/ runs'[r].aborted \/ runs'[r].nDone >= 1))
       => ((runs'[r].nDone >= 1) # runs'[r].aborted)]_vars

\* C2: at most one stream session is in flight at any time: a beginStream
\* aborts the session that is still in flight before the new one proceeds.
C2_AtMostOneSession == Cardinality(StreamsInFlight) <= 1

\* C3: the callbacks of an aborted session change neither the conversation log
\* nor the version slot: when the stop button aborts a session whose stream is
\* being read, the step (the abort and the continuation of the rejected read)
\* leaves messageHistory, regenerationHistory and currentResponseIndex as they
\* were, so that no finalize of the aborted session is applied.
C3_AbortedSessionIsSilent ==
  [][(HandleStopGeneration /\ \E r \in RunIds : runs[r].pc = "read" /\ runs'[r].aborted)
       => UNCHANGED <<messageHistory, regenerationHistory, currentResponseIndex>>]_vars

\* C4 as stated: every run of readSSE over an OK response (event stream or
\* not) invokes the completion handler exactly once, and no chunk handler
\* invocation follows it.
C4_DoneOncePerOKResponse ==
  [][\A r \in RunIds :
       (\/ runs[r].pc = "read" /\ Ends(r)
        \/ \E wellFormed \in BOOLEAN, json \in Documents : FetchFallback(r, wellFormed, json))
       => (runs'[r].nDone = 1 /\ runs'[r].nLate = 0)]_vars

\* C4 amended: every run of readSSE over an OK event stream (ended by end of
\* input, by [DONE], by a read failure or by an abort of the read) and every
\* run over an OK non-stream response whose body parses invokes the completion
\* handler exactly once, and no chunk handler invocation follows it.
C4_DoneOncePerDecodedRun ==
  [][\A r \in RunIds :
       (\/ runs[r].pc = "read" /\ Ends(r)
        \/ \E json \in Documents : FetchFallback(r, TRUE, json))
       => (runs'[r].nDone = 1 /\ runs'[r].nLate = 0)]_vars

\* a stream was cut by an abort while it was read, after a chunk of it was
\* handled, and its completion handler has run
C4_Witness ==
  \E r \in RunIds : runs[r].pc = "done" /\ runs[r].aborted /\ runs[r].nDone = 1

\* C5: every regeneration that ends without having been aborted has appended
\* exactly one version to the slot and left the cursor on it, in streaming and
\* non-streaming mode and on the JSON fallback, whether the attempt succeeded
\* or failed.
C5_OneVersionPerRegeneration ==
  [][\A r \in RunIds :
       (Ends(r) /\ ~runs'[r].aborted /\ runs[r].kind = "regen")
       => /\ runs'[r].nPush = 1
          /\ currentResponseIndex' = Len(regenerationHistory') - 1]_vars

(***************************************************************************)
(* The version slot and the conversation log                               *)
(***************************************************************************)
\* the latest request among the first `upto` that was started by a send
LastSend(rs, upto) ==
  LET sends == {q \in 1..upto : rs[q].pc # "idle" /\ rs[q].kind = "send"}
  IN IF sends = {} THEN 0 ELSE CHOOSE q \in sends : \A p \in sends : p <= q

\* C6: the cursor is -1 on an empty version list and within 0 .. len-1 on a
\* non-empty one, in every reachable state and after showPreviousResponse and
\* showNextResponse; each of the two changes nothing at its boundary, and
\* neither changes anything on a slot with a single version.
C6_CursorInvariant ==
  LET prev == showPreviousResponse(State)
      next == showNextResponse(State)
      len == Len(regenerationHistory)
      InRange(S) == IF S.regenerationHistory = <<>>
                    THEN S.currentResponseIndex = -1
                    ELSE S.currentResponseIndex \in 0 .. (Len(S.regenerationHistory) - 1)
  IN /\ InRange(State) /\ InRange(prev) /\ InRange(next)
     /\ currentResponseIndex <= 0 => prev = State
     /\ currentResponseIndex >= len - 1 => next = State
     /\ len = 1 => (prev = State /\ next = State)

\* showPreviousResponse has moved the cursor of a slot with two versions to
\* its lower boundary
C6_Witness ==
  Len(regenerationHistory) >= 2 /\ currentResponseIndex = 0

\* C7: no version produced for an earlier user turn is reachable in the slot
\* after a new user message was sent: a request that pushes a version into the
\* slot of a stored user turn was started for the latest message sent.
C7_NoCarryOver ==
  [][\A r \in RunIds :
       (runs'[r].nPush > runs[r].nPush /\ lastUserMessage' # <<>>)
       => LastSend(runs', r) = LastSend(runs', MaxRuns)]_vars

\* C8: outside a send and a clear, a step leaves the version list as it was or
\* appends exactly one version to it, keeping the versions stored before, with
\* the cursor on the new last index; the stored user turn is unchanged; and
\* showPreviousResponse / showNextResponse leave the version list as it was.
C8_AppendOnly ==
  [][LET len == Len(regenerationHistory)
         Appended == /\ Len(regenerationHistory') = len + 1
                     /\ SubSeq(regenerationHistory', 1, len) = regenerationHistory
                     /\ currentResponseIndex' = len
     IN /\ \/ /\ regenerationHistory' = regenerationHistory \/ Appended
              /\ lastUserMessage' = lastUserMessage
           \/ HandleClearChat
           \/ \E m \in UserMessages, mode \in Modes, stream \in BOOLEAN :
                 HandleSendMessage(m, mode, stream)
        /\ \/ regenerationHistory' = regenerationHistory
           \/ ~(HandlePreviousResponse \/ HandleNextResponse)]_vars

\* two different versions are stored, the second appended after the first,
\* and the cursor is on the second
C8_Witness ==
  /\ Len(regenerationHistory) = 2
  /\ regenerationHistory[1] # regenerationHistory[2]
  /\ currentResponseIndex = 1

\* C9: whenever the slot has versions, no request is in flight and the log has
\* an assistant turn, the content and images of the last assistant turn of the
\* log are those of the version under the cursor.
C9_LogShowsCursor ==
  LET i == LastAssistantIndex(messageHistory)
  IN (/\ regenerationHistory # <<>>
      /\ \A r \in RunIds : runs[r].pc \notin InFlight
      /\ i > 0)
     => /\ messageHistory[i].content = regenerationHistory[currentResponseIndex + 1].content
        /\ messageHistory[i].images = regenerationHistory[currentResponseIndex + 1].images

\* C10: a regeneration invoked on an answered user turn when the log had n
\* turns, and not aborted, leaves a log of n turns when the attempt ends
\* (finalized or failed), with an assistant turn at position n.
C10_RegenerationKeepsLength ==
  [][\A r \in RunIds :
       (Ends(r) /\ ~runs'[r].aborted /\ runs[r].kind = "regen" /\ runs[r].startLen > 0)
       => /\ Len(messageHistory') = runs[r].startLen
          /\ messageHistory'[runs[r].startLen].role = "assistant"]_vars

\* index of the last user turn of a log, 0 if there is none
LastUserIndex(h) ==
  LET idx == {i \in 1..Len(h) : h[i].role = "user"}
  IN IF idx = {} THEN 0 ELSE CHOOSE i \in idx : \A j \in idx : j <= i

\* C11: a user turn of the log never changes: whatever the step (a finalize of
\* a stream, empty, aborted or superseded; a regenerate; showPreviousResponse
\* or showNextResponse), every user turn that stays in the log keeps its
\* content and images, and the user turn stored in the slot equals the last
\* user turn of the log.
C11_UserTurnsImmutable ==
  [][/\ \A i \in 1..Len(messageHistory) :
          (messageHistory[i].role = "user" /\ i <= Len(messageHistory'))
          => messageHistory'[i] = messageHistory[i]
     /\ LET u == LastUserIndex(messageHistory')
        IN (lastUserMessage' # <<>> /\ u > 0)
           => /\ messageHistory'[u].content = lastUserMessage'[1].content
              /\ messageHistory'[u].images = lastUserMessage'[1].images]_vars

(***************************************************************************)
(* The message list of a request                                           *)
(***************************************************************************)
\* the content sent for a turn: its text, or typed parts when it has images
buildMultimodalContent(text, images) ==
  IF images = <<>> THEN [kind |-> "string", text |-> text, parts |-> <<>>]
  ELSE [kind |-> "parts", text |-> <<>>,
        parts |-> (IF text # <<>>
                   THEN <<[type |-> "text", text |-> text, url |-> ""]>> ELSE <<>>)
                  \o [i \in 1..Len(images) |->
                        [type |-> "image_url", text |-> <<>>, url |-> images[i]]]]

buildMessagesFromHistory(h) ==
  [i \in 1..Len(h) |->
     [role |-> h[i].role, content |-> buildMultimodalContent(h[i].content, h[i].images)]]

\* the messages of the body built by runChatRegeneration: the log without its
\* last turn, then the stored user message
Legacy_RegenerationMessages(S) ==
  LET h == S.messageHistory
      userMessage == S.lastUserMessage[1]
  IN buildMessagesFromHistory(SubSeq(h, 1, Len(h) - 1))
     \o <<[role |-> "user",
           content |-> buildMultimodalContent(userMessage.content, userMessage.images)]>>

\* C12: the message list sent by a regeneration is the conversation up to and
\* including the stored user turn: it is the log cut after its last user turn
\* (so the user turn is there once and no assistant turn follows it), and its
\* last message is the stored user turn.
C12_RegenerationSendsStoredTurn ==
  [][\A stream \in BOOLEAN :
       (lastUserMessage # <<>> /\ Legacy_regenerateLastResponse(stream))
       => LET messages == Legacy_RegenerationMessages(State)
              u == LastUserIndex(messageHistory)
          IN /\ messages = buildMessagesFromHistory(SubSeq(messageHistory, 1, u))
             /\ messages[Len(messages)] =
                  [role |-> "user",
                   content |-> buildMultimodalContent(lastUserMessage[1].content,
                                                      lastUserMessage[1].images)]]_vars

(***************************************************************************)
(* Deadlines and aborts                                                    *)
(***************************************************************************)
\* C13: the deadline timer of a session acts on that session only: when the
\* timer scheduled by the beginStream of session t fires while the current
\* controller is not that of session t (session t has ended or was aborted),
\* the firing aborts nothing: the controller, the active flag and every
\* request are as before.
C13_TimerAbortsOwnSessionOnly ==
  [][\A t \in RunIds :
       (TimerFires(t) /\ currentController # t)
       => UNCHANGED <<currentController, streamingActive, runs, messageHistory,
                      regenerationHistory, currentResponseIndex>>]_vars

\* SpecStreams with the browser's guarantee that a scheduled timer callback
\* runs; the server need not answer and the user need not act.
SpecStreamsFair == SpecStreams /\ \A t \in RunIds : WF_vars(TimerFires(t))

\* C14: every begun session eventually becomes inactive: a streaming request
\* in flight is eventually no longer in flight (it completes, is stopped, or
\* its deadline timer aborts it), even when the server never answers.
C14_SessionEventuallyInactive ==
  \A r \in RunIds :
    (runs[r].stream /\ runs[r].pc \in InFlight) ~> (runs[r].pc \notin InFlight)

\* C15: abortActive is idempotent: called when no controller is set (no session
\* is active, or the session was aborted before), by the stop button or by a
\* deadline timer, it changes nothing (controller null, active flag false, log,
\* slot and requests as before) and throws no error.
C15_AbortIsIdempotent ==
  [][((HandleStopGeneration \/ \E t \in RunIds : TimerFires(t)) /\ currentController = 0)
       => /\ currentController' = 0 /\ ~streamingActive'
          /\ UNCHANGED <<streamingActive, messageHistory, regenerationHistory,
                         currentResponseIndex, lastUserMessage, runs>>
          /\ uncaught' = uncaught]_vars

\* C16: after a stream session has finalized normally (its completion handler
\* ran and it was not aborted) the session is no longer active: the active
\* flag is false and the controller of the session is no longer the current
\* one.
C16_FinalizedSessionInactive ==
  [][\A r \in RunIds :
       (runs[r].stream /\ Ends(r) /\ ~runs'[r].aborted /\ runs'[r].nDone >= 1)
       => (~streamingActive' /\ currentController' # r)]_vars

(***************************************************************************)
(* Errors, clearing and regeneration                                       *)
(***************************************************************************)
\* C17: every attempt of the single-file script that ends in a fatal error
\* (transport failure, unparsable body of a non-stream answer, in streaming
\* and non-streaming mode) pushes exactly one version into the slot, and that
\* version carries the error text, so that the slot is not empty afterwards.
C17_FatalErrorPushesVersion ==
  [][\A r \in RunIds :
       (\/ Legacy_FetchFails(r)
        \/ Legacy_JsonFails(r)
        \/ \E json \in Documents : Legacy_FetchFallback(r, FALSE, json))
       => /\ runs'[r].nPush = 1
          /\ regenerationHistory' # <<>>
          /\ regenerationHistory'[Len(regenerationHistory')].content[1] = "Error: "]_vars

\* the Empty state: nothing in the log, nothing in the slot
Empty ==
  /\ messageHistory = <<>>
  /\ regenerationHistory = <<>>
  /\ currentResponseIndex = -1
  /\ lastUserMessage = <<>>

\* C18: clearing the conversation puts the system in the Empty state, and the
\* system stays in the Empty state until the next send, whatever request is
\* in flight when the conversation is cleared.
C18_ClearLeavesEmpty ==
  [][/\ HandleClearChat => Empty'
     /\ (Empty /\ ~Empty')
        => \E m \in UserMessages, mode \in Modes, stream \in BOOLEAN :
              HandleSendMessage(m, mode, stream)]_vars

\* C19: regenerate is legal only when a user turn is stored: while none is
\* stored, no request starts unless a message is sent, and a regenerate
\* invoked then changes nothing (no session, no request, log, slot and session
\* state as before).
C19_RegenerateNeedsStoredTurn ==
  [][\/ lastUserMessage # <<>>
     \/ /\ \/ \A r \in RunIds : runs'[r].pc = "idle" <=> runs[r].pc = "idle"
           \/ \E m \in UserMessages, mode \in Modes, stream \in BOOLEAN :
                 HandleSendMessage(m, mode, stream)
        /\ ~\E mode \in Modes, stream \in BOOLEAN : HandleRegenerateResponse(mode, stream)]_vars

\* the conversation was cleared after a request had been made: no user turn is
\* stored, the regenerate handler can be invoked and a further request could
\* still be started
C19_Witness ==
  /\ lastUserMessage = <<>>
  /\ Started # {}
  /\ NewRun <= MaxRuns
  /\ ENABLED (\E mode \in Modes, stream \in BOOLEAN : HandleRegenerateResponse(mode, stream))

(***************************************************************************)
(* readSSE's pump taken alone: a stream text (a sequence of characters,    *)
(* here tokens) arrives cut into chunks at arbitrary places                *)
(***************************************************************************)
NL == "\n"
SP == " "

\* buffer.indexOf('\n\n'), 1-based; 0 when there is none
IndexOfBlankLine(buffer) ==
  LET at == {i \in 1..(Len(buffer) - 1) : buffer[i] = NL /\ buffer[i + 1] = NL}
  IN IF at = {} THEN 0 ELSE CHOOSE i \in at : \A j \in at : i <= j

\* chunk.split('\n')
RECURSIVE SplitLines(_)
SplitLines(text) ==
  LET at == {i \in 1..Len(text) : text[i] = NL}
  IN IF at = {} THEN <<text>>
     ELSE LET i == CHOOSE k \in at : \A j \in at : k <= j
          IN <<SubSeq(text, 1, i - 1)>> \o SplitLines(SubSeq(text, i + 1, Len(text)))

\* String.prototype.trim
RECURSIVE Trim(_)
Trim(line) ==
  IF line = <<>> THEN line
  ELSE IF Head(line) \in {SP, NL} THEN Trim(Tail(line))
  ELSE IF line[Len(line)] \in {SP, NL} THEN Trim(SubSeq(line, 1, Len(line) - 1))
  ELSE line

\* the argument of onDone: onDone() or onDone(err)
NoCause == <<>>
ReadError == <<"read failed">>

\* JSON.parse(data): <<payload>>, or <<>> when it throws
JsonParse(data) ==
  IF Len(data) = 1 /\ data[1] \in {"a", "b"} THEN <<data[1]>> ELSE <<>>

HandlerError == <<"handler failed">>

\* a dispatch from which an exception of the chunk handler escapes to .catch
TryChunkUncaught(p, data) ==
  IF JsonParse(data) = <<>> THEN p
  ELSE IF data[1] \in p.throwing
       THEN [p EXCEPT !.out = @ \o JsonParse(data), !.done = TRUE,
                      !.ended = Append(@, HandlerError)]
       ELSE [p EXCEPT !.out = @ \o JsonParse(data), !.handled = @ \o JsonParse(data)]

\* try { const obj = JSON.parse(data); onChunk(obj); } catch (e) {}: out is
\* what onChunk was called with, handled what it processed without raising
TryChunk(p, data) ==
  IF JsonParse(data) = <<>> THEN p
  ELSE IF data[1] \in p.throwing
       THEN [p EXCEPT !.out = @ \o JsonParse(data)]
       ELSE [p EXCEPT !.out = @ \o JsonParse(data), !.handled = @ \o JsonParse(data)]

\* a frame loop for which a data line that is not JSON is fatal
RECURSIVE PumpFrameLinesFatal(_, _)
PumpFrameLinesFatal(p, lines) ==
  IF lines = <<>> THEN p
  ELSE LET line == Trim(Head(lines))
       IN IF line = <<>> \/ Head(line) # "data:" THEN PumpFrameLinesFatal(p, Tail(lines))
          ELSE LET data == Trim(Tail(line))
               IN IF data = <<"[DONE]">>
                  THEN [p EXCEPT !.done = TRUE, !.ended = Append(@, NoCause)]
                  ELSE IF JsonParse(data) = <<>>
                  THEN [p EXCEPT !.done = TRUE, !.ended = Append(@, ReadError)]
                  ELSE PumpFrameLinesFatal(TryChunk(p, data), Tail(lines))

\* for (let i = 0; i < lines.length; i++) of pump, over the lines of one frame
\* (the loop is left at [DONE], and by whatever the try block lets escape)
RECURSIVE PumpFrameLines(_, _)
PumpFrameLines(p, lines) ==
  IF lines = <<>> THEN p
  ELSE LET line == Trim(Head(lines))
       IN IF line = <<>> \/ Head(line) # "data:" THEN PumpFrameLines(p, Tail(lines))
          ELSE LET data == Trim(Tail(line))
               IN IF data = <<"[DONE]">>
                  THEN [p EXCEPT !.done = TRUE, !.ended = Append(@, NoCause)]
                  ELSE IF TryChunk(p, data).done THEN TryChunk(p, data)
                  ELSE PumpFrameLines(TryChunk(p, data), Tail(lines))

\* a frame loop that goes on with the frames left in the buffer after [DONE]
RECURSIVE PumpFramesPastDone(_)
PumpFramesPastDone(p) ==
  LET idx == IndexOfBlankLine(p.buffer)
  IN IF idx = 0 THEN p
     ELSE LET chunk == SubSeq(p.buffer, 1, idx - 1)
          IN PumpFramesPastDone(
               PumpFrameLines([p EXCEPT !.buffer = SubSeq(@, idx + 2, Len(@))],
                              SplitLines(chunk)))

\* while ((idx = buffer.indexOf('\n\n')) !== -1)
RECURSIVE PumpFrames(_)
PumpFrames(p) ==
  LET idx == IndexOfBlankLine(p.buffer)
  IN IF idx = 0 THEN p
     ELSE LET chunk == SubSeq(p.buffer, 1, idx - 1)
              p1 == PumpFrameLines([p EXCEPT !.buffer = SubSeq(@, idx + 2, Len(@))],
                                   SplitLines(chunk))
          IN IF p1.done THEN p1 ELSE PumpFrames(p1)

\* a read whose frame loop starts from the bytes of this read alone
PumpReadNoCarry(p, value) == PumpFrames([p EXCEPT !.buffer = value])

\* reader.read() resolved with value: buffer += decoder.decode(value), frame loop
PumpRead(p, value) == PumpFrames([p EXCEPT !.buffer = @ \o value])

\* the frames a server sends: a data line, a data line with blanks, a comment
\* line before a data line, the [DONE] sentinel, a data line of malformed JSON
FrameA == <<"data:", "a", NL, NL>>
FrameB == <<"data:", SP, "b", SP, NL, NL>>
FrameComment == <<":", NL, "data:", "b", NL, NL>>
FrameDone == <<"data:", "[DONE]", NL, NL>>
FrameBad == <<"data:", "{", NL, NL>>

Frames == {FrameA, FrameB, FrameComment, FrameDone, FrameBad}

\* the streams of at most n frames, as sequences of frames
RECURSIVE StreamsOf(_)
StreamsOf(n) ==
  IF n = 0 THEN {<<>>}
  ELSE LET shorter == StreamsOf(n - 1)
       IN shorter \cup {Append(fs, f) : fs \in shorter, f \in Frames}

\* the characters of a stream
RECURSIVE Flatten(_)
Flatten(fs) == IF fs = <<>> THEN <<>> ELSE Head(fs) \o Flatten(Tail(fs))

\* the payloads for which the chunk handler raises an exception
Throwing == {{}, {"a"}}

\* what a stream may end with behind its last delimiter: nothing, or a data
\* line that is not terminated by a blank line
Tails == {<<>>, <<"data:", "a">>, <<"data:", "a", NL>>}

\* a stream is chosen with its fate: the connection delivers it to the end, or
\* breaks at some point (failing)
InitPump ==
  /\ InitApp
  /\ \E fs \in StreamsOf(MaxFrames), tail \in Tails, failing \in BOOLEAN,
        throwing \in Throwing :
       sse = [NoPump EXCEPT !.frames = fs, !.tail = tail, !.failing = failing,
                            !.throwing = throwing,
                            !.text = Flatten(fs) \o tail, !.rest = Flatten(fs) \o tail]

\* reader.read() resolves with the next k characters of the stream
PumpReads(k) ==
  /\ ~sse.done
  /\ k \in 1..Len(sse.rest)
  /\ LET value == SubSeq(sse.rest, 1, k)
         rest == SubSeq(sse.rest, k + 1, Len(sse.rest))
         p == PumpRead(sse, value)
     IN sse' = [p EXCEPT !.rest = rest,
                         !.cutInDelimiter = @ \/ (value[k] = NL /\ rest # <<>> /\ Head(rest) = NL),
                         !.cutInLine = @ \/ value[k] = "data:"]
  /\ UNCHANGED <<currentController, streamingActive, timers, messageHistory,
                 isStreaming, regenerationHistory, currentResponseIndex, lastUserMessage,
                 runs, uncaught>>

\* an end of input that first dispatches what is left in the buffer as a frame
PumpEndsFlushing ==
  /\ ~sse.done
  /\ ~sse.failing
  /\ sse.rest = <<>>
  /\ sse' = [PumpFrameLines([sse EXCEPT !.buffer = <<>>], SplitLines(sse.buffer))
               EXCEPT !.done = TRUE, !.ended = Append(@, NoCause)]
  /\ UNCHANGED <<currentController, streamingActive, timers, messageHistory,
                 isStreaming, regenerationHistory, currentResponseIndex, lastUserMessage,
                 runs, uncaught>>

\* reader.read() resolves with done: onDone()
PumpEnds ==
  /\ ~sse.done
  /\ ~sse.failing
  /\ sse.rest = <<>>
  /\ sse' = [sse EXCEPT !.done = TRUE, !.ended = Append(@, NoCause)]
  /\ UNCHANGED <<currentController, streamingActive, timers, messageHistory,
                 isStreaming, regenerationHistory, currentResponseIndex, lastUserMessage,
                 runs, uncaught>>

\* a failing read that is reported as the end of the input
PumpReadFailsSilently ==
  /\ ~sse.done
  /\ sse.failing
  /\ sse' = [sse EXCEPT !.done = TRUE, !.ended = Append(@, NoCause)]
  /\ UNCHANGED <<currentController, streamingActive, timers, messageHistory,
                 isStreaming, regenerationHistory, currentResponseIndex, lastUserMessage,
                 runs, uncaught>>

\* reader.read() rejects: .catch(err => { if (onDone) onDone(err); })
PumpReadFails ==
  /\ ~sse.done
  /\ sse.failing
  /\ sse' = [sse EXCEPT !.done = TRUE, !.ended = Append(@, ReadError)]
  /\ UNCHANGED <<currentController, streamingActive, timers, messageHistory,
                 isStreaming, regenerationHistory, currentResponseIndex, lastUserMessage,
                 runs, uncaught>>

NextPump ==
  \/ \E k \in 1..Len(sse.rest) : PumpReads(k)
  \/ PumpEnds
  \/ PumpReadFails

\* One pump of readSSE over every stream text and every way of cutting it.
SpecPump == InitPump /\ [][NextPump]_vars

\* C20: what the pump has emitted does not depend on the chunk boundaries:
\* after any sequence of reads, the payloads emitted so far are those emitted
\* when the characters read so far arrive in one chunk; so at the end of the
\* stream the output is that of the whole text read at once.
C20_ChunkingInvariant ==
  LET read == SubSeq(sse.text, 1, Len(sse.text) - Len(sse.rest))
  IN sse.out = PumpRead([NoPump EXCEPT !.text = sse.text], read).out

\* a text of two payloads was read to its end in chunks, one cut inside a
\* blank-line delimiter and one inside a data line
C20_Witness ==
  /\ sse.rest = <<>> /\ sse.done
  /\ sse.cutInDelimiter /\ sse.cutInLine
  /\ Len(sse.out) = 2

\* the payload a frame carries, by the frame: none for [DONE] and malformed JSON
FramePayload(frame) ==
  IF frame = FrameA THEN <<"a">>
  ELSE IF frame \in {FrameB, FrameComment} THEN <<"b">>
  ELSE <<>>

\* the payloads of the frames of a stream up to its first [DONE]
RECURSIVE PayloadsBeforeDone(_)
PayloadsBeforeDone(fs) ==
  IF fs = <<>> \/ Head(fs) = FrameDone THEN <<>>
  ELSE FramePayload(Head(fs)) \o PayloadsBeforeDone(Tail(fs))

\* the frames of the stream read whole so far
RECURSIVE FramesWithin(_, _)
FramesWithin(fs, n) ==
  IF fs = <<>> \/ Len(Head(fs)) > n THEN <<>>
  ELSE <<Head(fs)>> \o FramesWithin(Tail(fs), n - Len(Head(fs)))

FramesRead == FramesWithin(sse.frames, Len(sse.text) - Len(sse.rest))

HasDone(fs) == \E i \in 1..Len(fs) : fs[i] = FrameDone

HasBad(fs) == \E i \in 1..Len(fs) : fs[i] = FrameBad

\* C21: a frame whose data is not valid JSON is dropped and nothing else is:
\* once such a frame has been read, the payloads emitted are exactly those of
\* the valid frames read (up to [DONE]), in order; the malformed frame does not
\* end the run, and a run that reaches the end of its stream ends without cause.
C21_MalformedFrameDropped ==
  HasBad(FramesRead) =>
    /\ sse.out = PayloadsBeforeDone(FramesRead)
    /\ (~sse.done => sse.ended = <<>>)
    /\ (sse.done /\ ~sse.failing => sse.ended = <<NoCause>>)

\* a valid frame, a malformed frame and a valid frame were read to the end
C21_Witness ==
  /\ sse.frames = <<FrameA, FrameBad, FrameB>>
  /\ sse.done /\ ~sse.failing
  /\ sse.out = <<"a", "b">>
  /\ sse.ended = <<NoCause>>

\* C22: once the [DONE] frame has been read, the pump has returned with one
\* call of the completion handler (without cause), the payloads emitted are
\* those of the frames before [DONE] only, whether the later frames came in
\* the same read or were still to come, and no read is pending or issued.
C22_DoneEndsTheRun ==
  HasDone(FramesRead) =>
    /\ sse.done
    /\ sse.ended = <<NoCause>>
    /\ sse.out = PayloadsBeforeDone(sse.frames)
    /\ ~ENABLED NextPump

\* [DONE] was read with a frame behind it in the same buffer
C22_Witness ==
  /\ sse.frames = <<FrameA, FrameDone, FrameB>>
  /\ sse.done
  /\ sse.buffer = FrameB
  /\ sse.out = <<"a">>

\* C23: a run that ends at the end of the input, no [DONE] read, ends with one
\* call of the completion handler without cause; a run that ends because the
\* read fails ends with one call of the completion handler with the cause, the
\* payloads emitted being those of the frames read before the failure; in both
\* cases no read is pending or issued afterwards.
C23_EndOfInputAndFailure ==
  (sse.done /\ ~HasDone(FramesRead)) =>
    /\ ~sse.failing => (sse.rest = <<>> /\ sse.ended = <<NoCause>>)
    /\ sse.failing => sse.ended = <<ReadError>>
    /\ sse.out = PayloadsBeforeDone(FramesRead)
    /\ ~ENABLED NextPump

\* the read failed after one payload, with frames still to come
C23_Witness ==
  /\ sse.failing /\ sse.done
  /\ sse.ended = <<ReadError>>
  /\ sse.out = <<"a">>
  /\ sse.rest # <<>>

(***************************************************************************)
(* Assembly of the response from the payloads of a stream                  *)
(***************************************************************************)
\* the text fragments a choice carries: its string content or its text parts
ChoiceText(choice) ==
  IF choice.content.kind = "string" THEN choice.content.text
  ELSE PartsText(choice.content.parts)

\* the image references a choice carries: its images list and its image parts
ChoiceImages(choice) ==
  EntriesImages(choice.images) \o PartsImages(choice.content.parts)

RECURSIVE ChoicesText(_)
ChoicesText(choices) ==
  IF choices = <<>> THEN <<>>
  ELSE ChoiceText(Head(choices)) \o ChoicesText(Tail(choices))

RECURSIVE ChoicesImages(_)
ChoicesImages(choices) ==
  IF choices = <<>> THEN <<>>
  ELSE ChoiceImages(Head(choices)) \o ChoicesImages(Tail(choices))

\* the text fragments of the data lines of one read, up to [DONE]
RECURSIVE LinesText(_)
LinesText(lines) ==
  IF lines = <<>> \/ Head(lines).kind = "done" THEN <<>>
  ELSE (IF Head(lines).kind = "json" THEN ChoicesText(Head(lines).payload.choices)
        ELSE <<>>) \o LinesText(Tail(lines))

\* the image references of the data lines of one read, up to [DONE]
RECURSIVE LinesImages(_)
LinesImages(lines) ==
  IF lines = <<>> \/ Head(lines).kind = "done" THEN <<>>
  ELSE (IF Head(lines).kind = "json" THEN ChoicesImages(Head(lines).payload.choices)
        ELSE <<>>) \o LinesImages(Tail(lines))

\* the step leaves text as the last version of the slot and as the content of
\* the assistant turn that ends the log
FinalizedText(text) ==
  /\ regenerationHistory' # <<>>
  /\ regenerationHistory'[Len(regenerationHistory')].content = text
  /\ messageHistory' # <<>>
  /\ messageHistory'[Len(messageHistory')].role = "assistant"
  /\ messageHistory'[Len(messageHistory')].content = text

\* C24: in a streaming text request the running text after a read is the
\* running text before it followed by every text fragment the read delivered
\* (string contents and text parts, in arrival order), and the run that ends
\* with some text leaves exactly its running text in the version pushed and in
\* the committed assistant turn.
C24_TextIsConcatenation ==
  [][\A r \in RunIds :
       (runs[r].pc = "read" /\ runs[r].mode = "text") =>
         /\ \A lines \in Chunks :
              ReadChunk(r, lines) =>
                LET text == runs[r].assistantContent \o LinesText(lines)
                IN IF runs'[r].pc = "read" THEN runs'[r].assistantContent = text
                   ELSE text # <<>> => FinalizedText(text)
         /\ (ReadEnd(r) /\ runs[r].assistantContent # <<>>) =>
              FinalizedText(runs[r].assistantContent)]_vars

\* C25: when a streaming text request is answered by a document, the document
\* is the whole response: the step that handles it pushes exactly one version
\* and leaves the document's text and images in that version and in the
\* committed assistant turn.
C25_FallbackIsWholeResponse ==
  [][\A r \in RunIds, json \in Documents :
       (runs[r].pc = "fetch" /\ runs[r].mode = "text" /\ FetchFallback(r, TRUE, json)) =>
         /\ Len(regenerationHistory') = Len(regenerationHistory) + 1
         /\ FinalizedText(ChoicesText(json.choices))
         /\ regenerationHistory'[Len(regenerationHistory')].images = ChoicesImages(json.choices)
         /\ messageHistory'[Len(messageHistory')].images = ChoicesImages(json.choices)]_vars

\* C26: a stream that ends having delivered neither text nor image leaves
\* the empty-response sentinel, never the empty text with the empty image
\* list, in the version pushed and in the committed assistant turn.
C26_NeverBothEmpty ==
  [][\A r \in RunIds :
       (runs[r].pc = "read" /\ runs[r].assistantContent = <<>>
          /\ runs[r].assistantImages = <<>> /\ ReadEnd(r))
       => FinalizedText(EmptyResponseText)]_vars

\* the step pushes a version with these images, its text being text or, when
\* text is empty and there are images, Generated N image(s): for N images
FinalizedImages(text, images) ==
  /\ Len(regenerationHistory') = Len(regenerationHistory) + 1
  /\ LET version == regenerationHistory'[Len(regenerationHistory')]
     IN /\ version.images = images
        /\ (text = <<>> /\ images # <<>>) => version.content = GeneratedText(Len(images))

\* C27: in a streaming image request the running image list after a read is
\* the list before it followed by every image reference the read delivered
\* (images lists and image parts of every choice), in order and with
\* repetitions; the version pushed at the end of the stream, or for a document
\* received in place of the stream, carries all the image references received
\* and, when they came without text, the text Generated N image(s):.
C27_ImagesAccumulated ==
  [][\A r \in RunIds :
       (runs[r].pc \in {"fetch", "read"} /\ runs[r].mode = "image") =>
         /\ \A lines \in Chunks :
              (ReadChunk(r, lines) /\ runs'[r].pc = "read") =>
                runs'[r].assistantImages = runs[r].assistantImages \o LinesImages(lines)
         /\ (ReadEnd(r) /\ runs[r].assistantImages # <<>>) =>
              FinalizedImages(runs[r].assistantContent, runs[r].assistantImages)
         /\ \A json \in Documents :
              FetchFallback(r, TRUE, json) =>
                FinalizedImages(ChoicesText(json.choices), ChoicesImages(json.choices))]_vars

\* some choice of a payload dispatched by the read, up to [DONE], carries
\* finish_reason content_filter
RECURSIVE LinesFiltered(_)
LinesFiltered(lines) ==
  IF lines = <<>> \/ Head(lines).kind = "done" THEN FALSE
  ELSE \/ /\ Head(lines).kind = "json"
          /\ \E i \in 1..Len(Head(lines).payload.choices) :
                Head(lines).payload.choices[i].finish_reason = "content_filter"
       \/ LinesFiltered(Tail(lines))

\* C28: when a read of a streaming request delivers a choice with finish
\* reason content_filter and no text has been received, the response shown,
\* the assistant turn that ends the log, is the content-filter sentinel; the
\* run is not ended by the filter signal and its completion handler is called
\* at most once.
C28_ContentFilterBlocks ==
  [][\A r \in RunIds, lines \in Chunks :
       (runs[r].pc = "read" /\ runs[r].assistantContent = <<>>
          /\ LinesFiltered(lines) /\ LinesText(lines) = <<>> /\ ReadChunk(r, lines))
       => /\ messageHistory' # <<>>
          /\ messageHistory'[Len(messageHistory')].role = "assistant"
          /\ messageHistory'[Len(messageHistory')].content = ContentFilterText
          /\ runs'[r].nDone <= 1]_vars

\* the chunk handler applied to each choice of a payload delivered as the
\* only choice of a payload of its own
RECURSIVE ChoiceByChoice(_, _, _)
ChoiceByChoice(S, r, choices) ==
  IF choices = <<>> THEN S
  ELSE ChoiceByChoice(OnChunk(S, r, Payload(<<Head(choices)>>)), r, Tail(choices))

RECURSIVE LinesByChoice(_, _, _)
LinesByChoice(S, r, lines) ==
  IF lines = <<>> \/ Head(lines).kind = "done" THEN S
  ELSE LinesByChoice(IF Head(lines).kind = "json"
                     THEN ChoiceByChoice(S, r, Head(lines).payload.choices) ELSE S,
                     r, Tail(lines))

\* C29: every choice of a payload is processed like choice 0: in text mode
\* and in image mode the running text and the running image list after a
\* read are those obtained when each choice of each payload of the read is
\* delivered alone, as choice 0 of a payload of its own.
C29_EveryChoiceProcessed ==
  [][\A r \in RunIds, lines \in Chunks :
       (runs[r].pc = "read" /\ ReadChunk(r, lines) /\ runs'[r].pc = "read") =>
         LET each == LinesByChoice(State, r, lines).runs[r]
         IN /\ runs'[r].assistantContent = each.assistantContent
            /\ runs'[r].assistantImages = each.assistantImages]_vars

\* C30: the slot is Empty, AwaitingFirstResponse or HasVersions: whenever it
\* holds a version it holds the user turn the version answers.
C30_VersionsHaveUserTurn ==
  regenerationHistory # <<>> => lastUserMessage # <<>>

\* C31: a stop always reaches the stream in flight: the controller held by
\* the service is the controller of every streaming request that is in flight.
C31_StopCancelsInFlight ==
  \A r \in RunIds :
    (runs[r].stream /\ runs[r].pc \in InFlight) => currentController = r

\* C32: the log never holds two consecutive assistant turns, so at most one
\* assistant turn, the draft or the committed answer, follows its last user
\* turn.
C32_OneAnswerPerUserTurn ==
  \A i \in 1..(Len(messageHistory) - 1) :
    ~(messageHistory[i].role = "assistant" /\ messageHistory[i + 1].role = "assistant")

\* the requests started by runTextChat / runImageChat that have not returned
RunsInFlight == {r \in RunIds : runs[r].pc \in InFlight}

\* C33: the streaming flag of the chat manager is true whenever a request
\* started by runTextChat or runImageChat is in flight and no stop was asked
\* for since the latest of them started: the end of a superseded run does not
\* reset the flag.
C33_FlagCoversRunsInFlight ==
  [][(RunsInFlight' # {} /\ isStreaming /\ ~isStreaming') => HandleStopGeneration]_vars

\* C34: the payloads emitted are, in stream order and once each, those of
\* the frames whose blank-line delimiter has been read (up to [DONE]); a data
\* line left without delimiter when the end of the input is reported is not
\* emitted.
C34_EmittedAfterDelimiter ==
  /\ sse.out = PayloadsBeforeDone(FramesRead)
  /\ (sse.done /\ sse.rest = <<>> /\ ~HasDone(sse.frames)) => sse.buffer = sse.tail

\* two frames and a data line without delimiter were read to the end of the input
C34_Witness ==
  /\ sse.frames = <<FrameA, FrameB>>
  /\ sse.tail = <<"data:", "a">>
  /\ sse.done /\ ~sse.failing /\ sse.rest = <<>>
  /\ sse.out = <<"a", "b">>

Handles(x) == x \notin sse.throwing

\* C35: once the chunk handler has raised an exception on a parsed payload,
\* the run goes on as after a malformed frame: the payloads of the frames read
\* are still all handed to the handler, those it does not fail on are
\* processed, and a stream delivered to its end ends with exactly one
\* completion without cause.
C35_HandlerFailureSwallowed ==
  (\E i \in 1..Len(sse.out) : sse.out[i] \in sse.throwing) =>
    /\ sse.out = PayloadsBeforeDone(FramesRead)
    /\ sse.handled = SelectSeq(sse.out, Handles)
    /\ (~sse.done => sse.ended = <<>>)
    /\ (sse.done /\ ~sse.failing => sse.ended = <<NoCause>>)

\* the handler failed on the first payload; the second was processed and the
\* stream ended at the end of its input
C35_Witness ==
  /\ sse.frames = <<FrameA, FrameB>>
  /\ sse.throwing = {"a"}
  /\ sse.done /\ ~sse.failing
  /\ sse.out = <<"a", "b">>
  /\ sse.handled = <<"b">>
  /\ sse.ended = <<NoCause>>

====
